---- MODULE Spec2Model ----
(***************************************************************************)
(* A model of the `arr` crate (src/src/lib.rs): Array<T>, a fixed-size     *)
(* heap buffer built on std::alloc, with its three constructors, scalar    *)
(* and range indexing, its iterator and its Drop.                          *)
(*                                                                         *)
(* Memory is a flat address space of Word bytes (usize is WordBits wide).  *)
(* An element of T is held in the cell at the address of its first byte;   *)
(* every address the code computes is ptr + idx * size_of::<T>() modulo    *)
(* Word, as wrapping_offset computes it.                                   *)
(***************************************************************************)
EXTENDS Integers, FiniteSets, TLC

\* ---------------------------------------------------------------- bounds
WordBits == 5
MaxArrays == 2
MaxOps == 3
SmallCount == 2

\* ------------------------------------------------------------- constants
Align == 8
Null == 0
Poison == -1
DefaultVal == 0

Word == 2 ^ WordBits
HalfWord == Word \div 2
Addr == 0 .. (Word - 1)
Handles == 1 .. MaxArrays
\* Element values: the default (zero) and another one.
Values == {DefaultVal, 1}
\* The templates new_from_template is given: new already fills with the
\* default value.
Templates == Values \ {DefaultVal}
\* size_of::<T>() of the element types modelled: u8 and u16.
ObjSizes == {1, 2}
\* The element counts the constructors are called with: empty, small, one
\* whose byte length wraps for a two-byte T, and one no Layout accepts.
Counts == {0, SmallCount, HalfWord + 1, Word - 1}
\* The indices scalar accesses are made with: the first slot, one past a
\* small buffer, and half the address space further.
Idxs == {0, SmallCount, HalfWord}
\* The ranges start..end views are asked for: empty, inner, reversed, past
\* the end of a small buffer, and a long one.
Ranges == {<<0, 0>>, <<1, SmallCount>>, <<1, 0>>, <<0, SmallCount + 1>>,
           <<0, HalfWord + 1>>}

VARIABLES
    objsize,          \* size_of::<T>() of the element type of this run
    overflow_checks,  \* the build: TRUE panics on usize overflow, FALSE wraps
    arrays,           \* handle -> the Array value (size, ptr) and its life
    heap,             \* the allocator: live base -> layout it was given for
    mem,              \* memory: address -> value, or Poison (indeterminate)
    cursor,           \* the ArrayIter in use, if any
    last,             \* the last operation and what it returned
    freed,            \* handle -> number of dealloc calls made for its region
    misuse,           \* a dealloc of a region not live, or with another layout
    crashed,          \* the process took a memory fault
    nops              \* operations performed

vars == <<objsize, overflow_checks, arrays, heap, mem, cursor, last, freed,
          misuse, crashed, nops>>

\* ------------------------------------------------------------- helpers
Min(S) == CHOOSE x \in S : \A y \in S : x <= y

\* The allocator hands out whole granules of Align bytes, at least one.
Foot(n) == Align * (((IF n = 0 THEN 1 ELSE n) + Align - 1) \div Align)

Bases == {Align * g : g \in 1 .. ((Word \div Align) - 1)}

NoRegion == [live |-> FALSE, size |-> 0, align |-> 0]

Live(hp) == {b \in Bases : hp[b].live}

\* Address a lies in the granules of a live region.
Occupied(hp, a) ==
    \E b \in Bases : hp[b].live /\ b <= a /\ a < b + Foot(hp[b].size)

\* usize multiplication: the product, and whether it overflowed the word.
MulUsize(a, b) == [val |-> (a * b) % Word, overflow |-> a * b >= Word]

\* Layout::from_size_align(size, align).is_ok(): size rounded up to align
\* must fit a usize.
LayoutOk(size, align) == size <= (Word - 1) - (align - 1)

\* ptr.wrapping_offset(idx as isize)
WrappingOffset(ptr, idx) == (ptr + idx * objsize) % Word

NoArray == [st |-> "unborn", size |-> 0, ptr |-> Null, count |-> 0,
            bytes |-> 0, fill |-> DefaultVal]
NoCursor == [arr |-> 0, iter |-> 0, calls |-> 0]
NoOp == [op |-> "init", h |-> 0, a |-> 0, b |-> 0, k |-> 0, v |-> 0,
         res |-> "ok", val |-> 0, vptr |-> 0, vlen |-> 0]

Op(op, h, a, b, k, v, res, val, vptr, vlen) ==
    [op |-> op, h |-> h, a |-> a, b |-> b, k |-> k, v |-> v,
     res |-> res, val |-> val, vptr |-> vptr, vlen |-> vlen]

Init ==
    /\ objsize \in ObjSizes
    \* A one-byte T never overflows the product: both builds are one program.
    /\ overflow_checks \in (IF objsize = 1 THEN {FALSE} ELSE BOOLEAN)
    /\ arrays = [h \in Handles |-> NoArray]
    /\ heap = [b \in Bases |-> NoRegion]
    /\ mem = [a \in Addr |-> Poison]
    /\ cursor = NoCursor
    /\ last = NoOp
    /\ freed = [h \in Handles |-> 0]
    /\ misuse = FALSE
    /\ crashed = FALSE
    /\ nops = 0

\* --------------------------------------------------------- the allocator
\* Where a request of n bytes can be placed: the lowest base whose granules
\* are free (first fit), if there is one.
FirstFit(hp, n) ==
    LET fits == {b \in Bases :
                   /\ b + Foot(n) <= Word
                   /\ \A c \in Live(hp) :
                         b + Foot(n) <= c \/ c + Foot(hp[c].size) <= b}
    IN  IF fits = {} THEN {} ELSE {Min(fits)}

\* alloc / alloc_zeroed return a pointer to the region, or null when the
\* allocator cannot or will not satisfy the request.
AllocOutcomes(hp, n) == {Null} \cup FirstFit(hp, n)

Allocate(hp, p, n, align) ==
    IF p = Null THEN hp
    ELSE [hp EXCEPT ![p] = [live |-> TRUE, size |-> n, align |-> align]]

\* The region's bytes after alloc (indeterminate) and alloc_zeroed (zero).
SetExtent(m, p, n, v) ==
    IF p = Null THEN m
    ELSE [a \in Addr |-> IF p <= a /\ a < p + n THEN v ELSE m[a]]

\* dealloc(ptr, layout) is correct for a live region given with the layout
\* it was allocated with, and for null (free(NULL) does nothing).
DeallocOk(hp, p, n, align) ==
    \/ p = Null
    \/ /\ p \in Live(hp)
       /\ hp[p].size = n
       /\ hp[p].align = align

Deallocate(hp, p) ==
    IF p \in Live(hp) THEN [hp EXCEPT ![p] = NoRegion] ELSE hp

\* An access to address a: it must fault in the page at address 0, it cannot fault
\* inside a live region's granules, and elsewhere it may do either.
MustFault(a) == a < Align
CanFault(hp, a) == ~Occupied(hp, a)

\* ------------------------------------------------------- Array<T> values
\* NewArray with the byte length stored where the element count belongs.
NewArraySizeInBytes(size, ptr, count, bytes, fill) ==
    [st |-> "live", size |-> bytes, ptr |-> ptr, count |-> count,
     bytes |-> bytes, fill |-> fill]

\* Self{size, ptr}; count, bytes and fill record the call that built it.
NewArray(size, ptr, count, bytes, fill) ==
    [st |-> "live", size |-> size, ptr |-> ptr, count |-> count,
     bytes |-> bytes, fill |-> fill]

\* Array::len
len(a) == a.size

Ready == ~crashed /\ nops < MaxOps

\* A constructor's result is bound to the lowest handle not yet used.
Fresh(h) ==
    /\ arrays[h].st = "unborn"
    /\ \A g \in Handles : g < h => arrays[g].st # "unborn"

\* What the slot at address a holds.
Load(m, a) == m[a]

\* The value index(i) would yield for array a: the cell wrapping_offset
\* reaches, whatever it belongs to.
SlotAddr(a, i) == WrappingOffset(a.ptr, i)
SlotValue(m, a, i) == Load(m, SlotAddr(a, i))

\* `size * objsize` and Layout::from_size_align(..).unwrap(): the byte
\* length, or a panic.
LayoutPanics(size) ==
    LET m == MulUsize(size, objsize)
    IN  (overflow_checks /\ m.overflow) \/ ~LayoutOk(m.val, Align)

LayoutBytes(size) == MulUsize(size, objsize).val

\* A constructor that panicked built nothing and allocated nothing.
ConstructPanic(op, h, size, v) ==
    /\ last' = Op(op, h, size, 0, 0, v, "panic", Poison, 0, 0)
    /\ nops' = nops + 1
    /\ UNCHANGED <<objsize, overflow_checks, arrays, heap, mem, cursor, freed,
                   misuse, crashed>>

\* Array::zero(size)
zero(h, size) ==
    /\ Ready
    /\ Fresh(h)
    /\ IF LayoutPanics(size)
       THEN ConstructPanic("zero", h, size, 0)
       ELSE \E p \in AllocOutcomes(heap, LayoutBytes(size)) :
              /\ heap' = Allocate(heap, p, LayoutBytes(size), Align)
              /\ mem' = SetExtent(mem, p, LayoutBytes(size), 0)
              /\ arrays' = [arrays EXCEPT ![h] =
                              NewArray(size, p, size, LayoutBytes(size), 0)]
              /\ last' = Op("zero", h, size, 0, 0, 0, "ok", Poison, 0, 0)
              /\ nops' = nops + 1
              /\ UNCHANGED <<objsize, overflow_checks, cursor, freed, misuse,
                             crashed>>

\* The fill loop `for i in 0..size { *ptr.wrapping_offset(i) = v }` writes
\* slots 0..s-1 and either completes (s = size) or faults at slot s.
FillStops(hp, p, size) ==
    LET bad == {i \in 0 .. (size - 1) : MustFault(WrappingOffset(p, i))}
        lim == IF bad = {} THEN size ELSE Min(bad)
    IN  {s \in 0 .. lim : s < size => CanFault(hp, WrappingOffset(p, s))}

FillWrite(m, p, s, v) ==
    LET written == {WrappingOffset(p, i) : i \in 0 .. (s - 1)}
    IN  [a \in Addr |-> IF a \in written THEN v ELSE m[a]]

\* The body new and new_from_template share: allocate, then fill with v.
AllocAndFill(op, h, size, v) ==
    IF LayoutPanics(size)
    THEN ConstructPanic(op, h, size, v)
    ELSE \E p \in AllocOutcomes(heap, LayoutBytes(size)) :
         LET hp == Allocate(heap, p, LayoutBytes(size), Align)
             m0 == SetExtent(mem, p, LayoutBytes(size), Poison)
         IN  \E s \in FillStops(hp, p, size) :
               /\ heap' = hp
               /\ mem' = FillWrite(m0, p, s, v)
               /\ arrays' = IF s = size
                            THEN [arrays EXCEPT ![h] =
                                    NewArray(size, p, size, LayoutBytes(size), v)]
                            ELSE arrays
               /\ crashed' = (s < size)
               /\ last' = Op(op, h, size, 0, 0, v,
                             IF s = size THEN "ok" ELSE "fault", Poison, 0, 0)
               /\ nops' = nops + 1
               /\ UNCHANGED <<objsize, overflow_checks, cursor, freed, misuse>>

\* Array::new(size)
new(h, size) ==
    /\ Ready
    /\ Fresh(h)
    /\ AllocAndFill("new", h, size, DefaultVal)

\* Array::new_from_template(size, &template)
new_from_template(h, size, template) ==
    /\ Ready
    /\ Fresh(h)
    /\ AllocAndFill("new_from_template", h, size, template)

\* ------------------------------------------------------------- indexing
\* The shared borrow an ArrayIter holds keeps its buffer from being mutated
\* or dropped while the cursor is alive.
Borrowed(h) == cursor.arr = h

\* An access through a reference to address a, which the code dereferences
\* unchecked: the outcomes "ok" and "fault" the memory allows.
DerefOutcomes(hp, a) ==
    IF MustFault(a) THEN {"fault"}
    ELSE IF CanFault(hp, a) THEN {"ok", "fault"}
    ELSE {"ok"}

\* ptr.wrapping_offset(idx).as_ref().unwrap(): a null result panics, any
\* other address is handed out as a reference.
RefOutcomes(hp, a) == IF a = Null THEN {"panic"} ELSE DerefOutcomes(hp, a)

\* Index<usize>::index, and the read through the reference it returns.
index(h, idx) ==
    /\ Ready
    /\ arrays[h].st = "live"
    /\ \E r \in RefOutcomes(heap, SlotAddr(arrays[h], idx)) :
         /\ last' = Op("index", h, idx, 0, 0, 0, r,
                       IF r = "ok" THEN SlotValue(mem, arrays[h], idx)
                       ELSE Poison, 0, 0)
         /\ crashed' = (r = "fault")
    /\ nops' = nops + 1
    /\ UNCHANGED <<objsize, overflow_checks, arrays, heap, mem, cursor, freed,
                   misuse>>

\* IndexMut<usize>::index_mut, and the store through the reference.
index_mut(h, idx, v) ==
    /\ Ready
    /\ arrays[h].st = "live"
    /\ ~Borrowed(h)
    /\ \E r \in RefOutcomes(heap, SlotAddr(arrays[h], idx)) :
         /\ last' = Op("index_mut", h, idx, 0, 0, v, r, Poison, 0, 0)
         /\ mem' = IF r = "ok"
                   THEN [mem EXCEPT ![SlotAddr(arrays[h], idx)] = v]
                   ELSE mem
         /\ crashed' = (r = "fault")
    /\ nops' = nops + 1
    /\ UNCHANGED <<objsize, overflow_checks, arrays, heap, cursor, freed,
                   misuse>>

\* to_slice / to_slice_mut: slice::from_raw_parts(self.ptr, self.size)
to_slice(a) == [ptr |-> a.ptr, len |-> a.size]

\* SliceIndexOk without the check of end against the length.
SliceIndexNoEndCheck(length, start, end) == start <= end

\* The slice's own range check in `[idx]`.
SliceIndexOk(length, start, end) == start <= end /\ end <= length

\* The view `&slice[start..end]`.
SubSlice(sl, start, end) ==
    [ptr |-> WrappingOffset(sl.ptr, start), len |-> end - start]

\* The offsets a view is accessed at: its first and its last element.
ViewOffsets(length) == IF length = 0 THEN {} ELSE {0, length - 1}

\* Index<Range<usize>>::index, and a read of the view's element k.
index_range(h, start, end) ==
    /\ Ready
    /\ arrays[h].st = "live"
    /\ LET sl == to_slice(arrays[h])
           vw == SubSlice(sl, start, end)
       IN  IF ~SliceIndexOk(sl.len, start, end)
           THEN /\ last' = Op("index_range", h, start, end, 0, 0, "panic",
                              Poison, 0, 0)
                /\ crashed' = crashed
           ELSE IF vw.len = 0
           THEN /\ last' = Op("index_range", h, start, end, 0, 0, "empty",
                              Poison, vw.ptr, vw.len)
                /\ crashed' = crashed
           ELSE \E k \in ViewOffsets(vw.len) :
                \E r \in DerefOutcomes(heap, WrappingOffset(vw.ptr, k)) :
                  /\ last' = Op("index_range", h, start, end, k, 0, r,
                                IF r = "ok"
                                THEN Load(mem, WrappingOffset(vw.ptr, k))
                                ELSE Poison, vw.ptr, vw.len)
                  /\ crashed' = (r = "fault")
    /\ nops' = nops + 1
    /\ UNCHANGED <<objsize, overflow_checks, arrays, heap, mem, cursor, freed,
                   misuse>>

\* IndexMut<Range<usize>>::index_mut, and a store to the view's element k.
index_mut_range(h, start, end, v) ==
    /\ Ready
    /\ arrays[h].st = "live"
    /\ ~Borrowed(h)
    /\ LET sl == to_slice(arrays[h])
           vw == SubSlice(sl, start, end)
       IN  IF ~SliceIndexOk(sl.len, start, end)
           THEN /\ last' = Op("index_mut_range", h, start, end, 0, v, "panic",
                              Poison, 0, 0)
                /\ UNCHANGED <<mem, crashed>>
           ELSE IF vw.len = 0
           THEN /\ last' = Op("index_mut_range", h, start, end, 0, v, "empty",
                              Poison, vw.ptr, vw.len)
                /\ UNCHANGED <<mem, crashed>>
           ELSE \E k \in ViewOffsets(vw.len) :
                \E r \in DerefOutcomes(heap, WrappingOffset(vw.ptr, k)) :
                  /\ last' = Op("index_mut_range", h, start, end, k, v, r,
                                Poison, vw.ptr, vw.len)
                  /\ mem' = IF r = "ok"
                            THEN [mem EXCEPT ![WrappingOffset(vw.ptr, k)] = v]
                            ELSE mem
                  /\ crashed' = (r = "fault")
    /\ nops' = nops + 1
    /\ UNCHANGED <<objsize, overflow_checks, arrays, heap, cursor, freed,
                   misuse>>

\* ------------------------------------------------------------ iteration
\* Array::iter, and IntoIterator for &Array, which calls it.
iter(h) ==
    /\ Ready
    /\ arrays[h].st = "live"
    /\ cursor = NoCursor
    /\ cursor' = [arr |-> h, iter |-> 0, calls |-> 0]
    /\ last' = Op("iter", h, 0, 0, 0, 0, "ok", Poison, 0, 0)
    /\ nops' = nops + 1
    /\ UNCHANGED <<objsize, overflow_checks, arrays, heap, mem, freed, misuse,
                   crashed>>

\* ArrayIter::next
next ==
    /\ Ready
    /\ cursor # NoCursor
    /\ LET a == arrays[cursor.arr]
       IN  IF cursor.iter < len(a)
           THEN \E r \in RefOutcomes(heap, SlotAddr(a, cursor.iter)) :
                  /\ cursor' = [cursor EXCEPT !.iter = cursor.iter + 1,
                                              !.calls = cursor.calls + 1]
                  /\ last' = Op("next", cursor.arr, cursor.iter, 0,
                                cursor.calls + 1, 0, r,
                                IF r = "ok" THEN SlotValue(mem, a, cursor.iter)
                                ELSE Poison, 0, 0)
                  /\ crashed' = (r = "fault")
           ELSE /\ cursor' = [cursor EXCEPT !.calls = cursor.calls + 1]
                /\ last' = Op("next", cursor.arr, cursor.iter, 0,
                              cursor.calls + 1, 0, "none", Poison, 0, 0)
                /\ crashed' = crashed
    /\ nops' = nops + 1
    /\ UNCHANGED <<objsize, overflow_checks, arrays, heap, mem, freed, misuse>>

\* The cursor goes out of scope, exhausted or not.
iter_end ==
    /\ Ready
    /\ cursor # NoCursor
    /\ cursor' = NoCursor
    /\ last' = Op("iter_end", cursor.arr, cursor.iter, 0, cursor.calls, 0,
                  "ok", Poison, 0, 0)
    /\ nops' = nops + 1
    /\ UNCHANGED <<objsize, overflow_checks, arrays, heap, mem, freed, misuse,
                   crashed>>

\* ---------------------------------------------------------- destruction
\* DropBytes without the element size: the count taken for a byte length.
DropBytesNoObjsize(a) == a.size

\* The byte length Drop::drop computes for the layout it deallocates with.
DropBytes(a) == MulUsize(a.size, objsize).val

\* Drop::drop, run when the buffer's owner lets go of it.
drop(h) ==
    /\ Ready
    /\ arrays[h].st = "live"
    /\ ~Borrowed(h)
    /\ LET a == arrays[h]
       IN  IF LayoutPanics(a.size)
           THEN /\ last' = Op("drop", h, 0, 0, 0, 0, "panic", Poison, 0, 0)
                /\ UNCHANGED <<heap, mem, freed, misuse>>
           ELSE /\ last' = Op("drop", h, 0, 0, 0, 0, "ok", Poison, 0, 0)
                /\ misuse' = (misuse \/ ~DeallocOk(heap, a.ptr, DropBytes(a), Align))
                /\ heap' = Deallocate(heap, a.ptr)
                /\ mem' = IF a.ptr \in Live(heap)
                          THEN SetExtent(mem, a.ptr, Foot(heap[a.ptr].size), Poison)
                          ELSE mem
                /\ freed' = [freed EXCEPT ![h] =
                               freed[h] + (IF a.ptr = Null THEN 0 ELSE 1)]
    /\ arrays' = [arrays EXCEPT ![h].st = "dropped"]
    /\ nops' = nops + 1
    /\ UNCHANGED <<objsize, overflow_checks, cursor, crashed>>

Next ==
    \/ \E h \in Handles, size \in Counts : zero(h, size)
    \/ \E h \in Handles, size \in Counts : new(h, size)
    \/ \E h \in Handles, size \in Counts, t \in Templates :
          new_from_template(h, size, t)
    \/ \E h \in Handles, idx \in Idxs : index(h, idx)
    \/ \E h \in Handles, idx \in Idxs, v \in Values : index_mut(h, idx, v)
    \/ \E h \in Handles, r \in Ranges : index_range(h, r[1], r[2])
    \/ \E h \in Handles, r \in Ranges, v \in Values :
          index_mut_range(h, r[1], r[2], v)
    \/ \E h \in Handles : iter(h)
    \/ next
    \/ iter_end
    \/ \E h \in Handles : drop(h)

Spec == Init /\ [][Next]_vars

\* ================================================================ claims
Ctors == {"zero", "new", "new_from_template"}
Valid(a) == 0 .. (len(a) - 1)

\* C1: a scalar read index(i) or write index_mut(i) with i >= size, on a
\* non-empty buffer whose allocation succeeded, fails (a panic, the crate's
\* BoundsError) instead of yielding a reference, and leaves memory as it was.
C1_ScalarOutOfBoundsFails ==
    [][(/\ last'.op \in {"index", "index_mut"}
        /\ arrays[last'.h].ptr # Null
        /\ len(arrays[last'.h]) > 0
        /\ last'.a >= len(arrays[last'.h]))
       => (last'.res = "panic" /\ mem' = mem)]_vars

\* C2: every region the allocator holds belongs to exactly one live buffer,
\* with the layout (byte length, alignment) Drop will hand back; a dropped
\* buffer's region was deallocated exactly once, with that layout (no
\* dealloc of a region not live or with another layout ever happened), and
\* no region outlives its buffer.
C2_DeallocatedExactlyOnce ==
    /\ ~misuse
    /\ \A h \in Handles :
         /\ arrays[h].st = "live" =>
              /\ freed[h] = 0
              /\ arrays[h].ptr # Null =>
                   /\ arrays[h].ptr \in Live(heap)
                   /\ heap[arrays[h].ptr].size = DropBytes(arrays[h])
                   /\ heap[arrays[h].ptr].size = arrays[h].bytes
                   /\ heap[arrays[h].ptr].align = Align
         /\ arrays[h].st = "dropped" =>
              freed[h] = (IF arrays[h].ptr = Null THEN 0 ELSE 1)
         /\ arrays[h].st = "unborn" => freed[h] = 0
    /\ ~crashed =>
         \A b \in Live(heap) :
           Cardinality({h \in Handles :
                          arrays[h].st = "live" /\ arrays[h].ptr = b}) = 1

\* A buffer was dropped and its region freed once while another buffer
\* still holds its own region.
C2_Witness ==
    \E h, g \in Handles :
      /\ arrays[h].st = "dropped" /\ arrays[h].ptr # Null /\ freed[h] = 1
      /\ arrays[g].st = "live" /\ arrays[g].ptr \in Live(heap)
      /\ last.op = "drop" /\ last.res = "ok"

\* C3: right after a construction that returned a buffer whose allocation
\* succeeded, every slot i in [0, size) holds the constructor's fill value.
C3_SlotsHoldFill ==
    (/\ last.op \in Ctors
     /\ last.res = "ok"
     /\ arrays[last.h].ptr # Null)
    => \A i \in Valid(arrays[last.h]) :
         SlotValue(mem, arrays[last.h], i) = arrays[last.h].fill

\* C4: a scalar write of v to a valid slot i of a buffer (whose allocation
\* succeeded) is read back as v and alters no other slot j # i.
C4_WriteReadBackAndFrame ==
    [][(/\ last'.op = "index_mut"
        /\ arrays[last'.h].ptr # Null
        /\ last'.a \in Valid(arrays[last'.h]))
       => (/\ last'.res = "ok"
           /\ SlotValue(mem', arrays[last'.h], last'.a) = last'.v
           /\ \A j \in Valid(arrays[last'.h]) \ {last'.a} :
                SlotValue(mem', arrays[last'.h], j)
                  = SlotValue(mem, arrays[last'.h], j))]_vars

\* C5: len() of every buffer is the count it was constructed with, in every
\* state: after construction and after any reads, writes and iterations.
C5_LenIsCount ==
    \A h \in Handles :
      arrays[h].st = "live" => len(arrays[h]) = arrays[h].count

\* A non-empty buffer has been written through index_mut and still has the
\* length it was built with.
C5_Witness ==
    /\ last.op = "index_mut"
    /\ last.res = "ok"
    /\ arrays[last.h].st = "live"
    /\ arrays[last.h].count > 0
    /\ len(arrays[last.h]) = arrays[last.h].count

\* C6: the k-th call of next() on a fresh cursor over a buffer of size n
\* returns slot k-1, equal to the indexed read of it, for k <= n, and
\* signals the end for k > n.
C6_NextYieldsSlotsInOrder ==
    last.op = "next" =>
      IF last.k <= len(arrays[last.h])
      THEN /\ last.res = "ok"
           /\ last.a = last.k - 1
           /\ last.val = SlotValue(mem, arrays[last.h], last.k - 1)
      ELSE last.res = "none"

\* C7: a range read or write start..end with start > end or end > size
\* fails (a panic), returns no view and leaves memory as it was.
C7_BadRangeFails ==
    [][(/\ last'.op \in {"index_range", "index_mut_range"}
        /\ ~(last'.a <= last'.b /\ last'.b <= len(arrays[last'.h])))
       => (/\ last'.res = "panic"
           /\ last'.vlen = 0
           /\ mem' = mem
           /\ ~crashed')]_vars

\* A mutable range whose end lies past the buffer's size panicked.
C7_Witness ==
    /\ last.op = "index_mut_range"
    /\ last.res = "panic"
    /\ last.a <= last.b
    /\ last.b > len(arrays[last.h])
    /\ len(arrays[last.h]) > 0

\* C8: for 0 <= start <= end <= size (and a buffer whose allocation
\* succeeded) the view has end - start elements, its element k is the
\* buffer's slot start + k, a read through it returns that slot's value and
\* a write through it changes that slot and no other slot of the buffer.
C8_ViewIsSlots ==
    [][(/\ last'.op \in {"index_range", "index_mut_range"}
        /\ arrays[last'.h].ptr # Null
        /\ last'.a <= last'.b
        /\ last'.b <= len(arrays[last'.h]))
       => (/\ last'.res \in {"ok", "empty"}
           /\ last'.vlen = last'.b - last'.a
           /\ last'.res = "ok" =>
                /\ WrappingOffset(last'.vptr, last'.k)
                     = SlotAddr(arrays[last'.h], last'.a + last'.k)
                /\ last'.op = "index_range" =>
                     last'.val = SlotValue(mem, arrays[last'.h],
                                           last'.a + last'.k)
                /\ last'.op = "index_mut_range" =>
                     /\ SlotValue(mem', arrays[last'.h], last'.a + last'.k)
                          = last'.v
                     /\ \A j \in Valid(arrays[last'.h]) \ {last'.a + last'.k} :
                          SlotValue(mem', arrays[last'.h], j)
                            = SlotValue(mem, arrays[last'.h], j))]_vars

\* C9: a construction whose allocation fails does not return a buffer:
\* every buffer the caller holds with size > 0 has a non-null ptr.
C9_NoNullBuffer ==
    \A h \in Handles :
      (arrays[h].st = "live" /\ len(arrays[h]) > 0) => arrays[h].ptr # Null

\* C10: a buffer that was returned owns a region of exactly size *
\* size_of::<T>() bytes, the true product: a count whose byte length
\* overflows the word never yields a buffer.
C10_RegionIsTrueProduct ==
    \A h \in Handles :
      (arrays[h].st = "live" /\ arrays[h].ptr # Null) =>
        /\ arrays[h].ptr \in Live(heap)
        /\ heap[arrays[h].ptr].size = len(arrays[h]) * objsize

====
